---- MODULE Spec2Model ----
(***************************************************************************)
(* A model of src/farm_optimizer.py: the FarmOptimizer class, its helper   *)
(* computations and the monthly projection loop                            *)
(* optimize_with_infrastructure.                                           *)
(*                                                                         *)
(* Every definition is translated statement by statement from the method   *)
(* it names.  Python floats are modelled as exact rationals <<n, d>> with  *)
(* d > 0 in lowest terms; a Python exception is modelled as a fault value  *)
(* ("AttributeError", "NameError", "ZeroDivisionError") that ends the      *)
(* call.  Objects held by reference (the Project and InfrastructureUpgrade *)
(* instances of the catalog) are modelled by their index in the catalog,   *)
(* and the dataclass-generated __eq__ by equality of the declared fields.  *)
(***************************************************************************)
EXTENDS Integers, Sequences, FiniteSets, TLC

VARIABLES
    resources,            \* self.resources (mutated in place by upgrades)
    projects,             \* self.projects.values(), in dict order
    infrastructure_upgrades, \* self.infrastructure_upgrades.values(), in dict order
    projection_months,    \* the argument of optimize_with_infrastructure
    pc,                   \* position in optimize_with_infrastructure
    month,                \* the loop variable of line 649
    current_projects,     \* local: list of references into projects
    planned_upgrades,     \* local: list of references into infrastructure_upgrades
    available_budget,     \* local
    accumulated_savings,  \* local
    monthly_report,       \* local: the period record being built
    monthly_revenue,      \* local (line 678)
    monthly_costs,        \* local (line 682)
    water_costs,          \* local (line 683)
    monthly_profit,       \* local (line 686)
    reinvestment_amount,  \* local (line 690)
    financial_projection, \* local: the trace returned at the end
    fault,                \* the exception that ended the call, or "none"
    returned,             \* the value returned by line 729, or Nothing
    first,                \* the result of an earlier run on an equal snapshot
    built,                \* the arguments the optimizer was constructed from
    result                \* the outcome of the last helper-method call

vars == << resources, projects, infrastructure_upgrades, projection_months, pc,
           month, current_projects, planned_upgrades, available_budget,
           accumulated_savings, monthly_report, monthly_revenue, monthly_costs,
           water_costs, monthly_profit, reinvestment_amount,
           financial_projection, fault, returned, first, built, result >>

----------------------------------------------------------------------------
(* Bounds of the model. *)

\* The largest projection_months explored.
MaxMonths == 3

\* The largest number of projects in a list handed to a helper method.
MaxListLen == 2

----------------------------------------------------------------------------
(* Exact arithmetic standing for Python's float arithmetic. *)

Abs(x) == IF x < 0 THEN -x ELSE x

RECURSIVE GCD(_, _)
GCD(a, b) == IF b = 0 THEN a ELSE GCD(b, a % b)

\* The rational n/d (d # 0) in lowest terms with a positive denominator.
Q(n, d) ==
    LET g == GCD(Abs(n), Abs(d))
        s == IF d < 0 THEN -1 ELSE 1
    IN  << (s * n) \div g, (s * d) \div g >>

Num(n) == << n, 1 >>
Zero == Num(0)
One == Num(1)

QAdd(x, y) == Q(x[1] * y[2] + y[1] * x[2], x[2] * y[2])
QSub(x, y) == Q(x[1] * y[2] - y[1] * x[2], x[2] * y[2])
QMul(x, y) == Q(x[1] * y[1], x[2] * y[2])
\* x / y for y # 0; Python raises ZeroDivisionError for y = 0, which every
\* caller below tests before dividing.
QDiv(x, y) == Q(x[1] * y[2], x[2] * y[1])
QLe(x, y) == x[1] * y[2] <= y[1] * x[2]
QLt(x, y) == x[1] * y[2] < y[1] * x[2]
IsZero(x) == x[1] = 0

RECURSIVE QSum(_)
\* sum(...) over a sequence of rationals, left to right from 0.
QSum(s) == IF s = << >> THEN Zero ELSE QAdd(QSum(SubSeq(s, 1, Len(s) - 1)), s[Len(s)])

Range(s) == { s[i] : i \in DOMAIN s }

----------------------------------------------------------------------------
(* The enumerations. *)

Seasons == << "spring", "summer", "fall", "winter" >>

\* Season.from_month
from_month(m) == Seasons[(m % 4) + 1]

\* A seasonal table from its four values, in tenths.
Seasonal(sp, su, fa, wi) ==
    [ spring |-> Q(sp, 10), summer |-> Q(su, 10), fall |-> Q(fa, 10), winter |-> Q(wi, 10) ]

----------------------------------------------------------------------------
(* The catalog. *)

\* Project(...): the fields the modelled methods read (daily_hours,
\* knowledge_required and sustainability_score are read nowhere).  kwh, prob
\* and climate are given in tenths or hundredths; funded_so_far is no field
\* of the dataclass: has_funded_so_far says whether the attribute exists.
Project(name, setup_cost, monthly_cost, revenue, savings, space, indoor, water, kwh10, tou, startup, synergy, scalability, automation, product_type, prob100, seasonal, climate10) ==
    [ name |-> name, setup_cost |-> Num(setup_cost), monthly_cost |-> Num(monthly_cost),
      monthly_revenue |-> Num(revenue), monthly_savings |-> Num(savings),
      space_required_sqft |-> space, is_indoor |-> indoor,
      water_gallons_daily |-> Num(water),
      power_usage |-> [ kwh_daily |-> Q(kwh10, 10), time_of_use |-> tou ],
      startup_time_months |-> startup, synergy_projects |-> synergy,
      scalability |-> scalability, automation_potential |-> automation,
      product_type |-> product_type, base_sales_probability |-> Q(prob100, 100),
      seasonal_multipliers |-> seasonal, climate_controlled_benefit |-> Q(climate10, 10),
      current_stage |-> "setup",
      has_funded_so_far |-> FALSE, funded_so_far |-> Zero ]

PlantCloning(name) ==
    Project(name, 300, 20, 1000, 20, 30, TRUE, 2, 4, "any_time", 2,
            {"air_plants", "microgreens"}, 7, 5, "plants", 80,
            Seasonal(12, 10, 11, 10), 12)

\* _initialize_projects: the dict's values in insertion order.  air_plants is
\* given monthly_revenue twice (100, then 0): air_revenue is the one taken.
_initialize_projects(air_revenue) ==
    << Project("Air Cleaning Plants", 200, 30, air_revenue, 0, 50, TRUE, 2, 12,
               "daytime_only", 3, {"plant_cloning"}, 6, 7, "plants", 70,
               Seasonal(12, 10, 11, 13), 12),
       Project("Rabbit Breeding", 500, 50, 100, 0, 50, TRUE, 5, 5, "any_time", 2,
               {"compost"}, 8, 5, "meat", 80, Seasonal(11, 10, 12, 10), 11),
       Project("Duck Ranching", 1000, 100, 100, 20, 100, FALSE, 10, 10, "any_time", 3,
               {"black_soldier_fly_larvae"}, 7, 4, "eggs, meat", 90,
               Seasonal(12, 11, 10, 8), 10),
       Project("Black Soldier Fly Larvae", 200, 20, 100, 20, 20, TRUE, 1, 2, "any_time", 1,
               {"duck_ranching", "edible_insects"}, 9, 6, "feed", 90,
               Seasonal(11, 12, 10, 9), 10),
       Project("Edible Insects", 300, 30, 100, 20, 30, TRUE, 2, 3, "any_time", 2,
               {"black_soldier_fly_larvae"}, 7, 5, "food", 80,
               Seasonal(11, 10, 12, 10), 11),
       Project("Geese Ranching", 800, 80, 100, 20, 150, FALSE, 15, 15, "any_time", 3,
               {"duck_ranching"}, 7, 4, "eggs, meat", 85,
               Seasonal(12, 11, 10, 8), 10),
       PlantCloning("Plant Cloning"),
       PlantCloning("Plant Cloning") >>

\* InfrastructureUpgrade(...): resource_impacts is the dict's items in order.
InfrastructureUpgrade(name, cost, impacts, operating, seasonal) ==
    [ name |-> name, cost |-> Num(cost), resource_impacts |-> impacts,
      monthly_operating_cost |-> Num(operating), seasonal_benefits |-> seasonal ]

\* _initialize_upgrades: the dict's values in insertion order.
_initialize_upgrades ==
    << InfrastructureUpgrade("Water Well Installation", 25000,
                             << << "water_cost", -1 >> >>, 50,
                             Seasonal(10, 10, 10, 10)),
       InfrastructureUpgrade("Greenhouse Construction", 5000,
                             << << "climate_controlled_sqft", 500 >>,
                                << "indoor_space_sqft", 500 >> >>, 100,
                             Seasonal(12, 10, 13, 15)),
       InfrastructureUpgrade("Hoop House", 2000,
                             << << "indoor_space_sqft", 300 >> >>, 30,
                             Seasonal(13, 11, 12, 12)) >>

----------------------------------------------------------------------------
(* The resource snapshot. *)

\* Resources(...) as the example usage builds it, with the four fields the
\* dataclass defaults; money is available_money_monthly and rate10 the
\* reinvestment_rate in tenths.  market_connections = None is the empty list
\* (both are falsy at line 565).
Resources(money, rate10, battery, daytime, connections) ==
    [ solar_power_kw |-> Num(10), battery_capacity_kwh |-> Num(battery),
      daytime_power_available_kwh |-> Num(daytime),
      water_distance_miles |-> Num(35), truck_mpg |-> Num(15),
      initial_soil |-> Num(0), available_money_monthly |-> Num(money),
      investment_period_months |-> 12, work_hours_daily |-> << 8, 10 >>,
      outdoor_space_acres |-> Q(1, 2), indoor_space_sqft |-> 200,
      has_automation_skills |-> TRUE, climate_controlled_sqft |-> 0,
      market_connections |-> connections, reinvestment_rate |-> Q(rate10, 10),
      target_savings |-> Num(25000) ]

MarketConnection(name, product_types, multiplier10) ==
    [ name |-> name, product_types |-> product_types, sales_multiplier |-> Q(multiplier10, 10) ]

----------------------------------------------------------------------------
(* The helper methods of FarmOptimizer.  Each takes the resource snapshot  *)
(* it reads (self.resources) as its first argument.                        *)

\* What a call gives back: a value, or the exception it raised.
Ok(v) == [ fault |-> "none", value |-> v ]
Raise(e) == [ fault |-> e, value |-> Zero ]

\* line 536: the daytime-only total.
daytime_power(ps) ==
    QSum([ i \in 1..Len(ps) |->
             IF ps[i].power_usage.time_of_use = "daytime_only"
             THEN ps[i].power_usage.kwh_daily ELSE Zero ])

\* line 540: the night-only and any-time total.
battery_power(ps) ==
    QSum([ i \in 1..Len(ps) |->
             IF ps[i].power_usage.time_of_use \in {"night_only", "any_time"}
             THEN ps[i].power_usage.kwh_daily ELSE Zero ])

\* A version of check_power_feasibility whose daytime test is reversed.
check_power_feasibility_reversed(res, ps) ==
    /\ QLe(res.daytime_power_available_kwh, daytime_power(ps))
    /\ QLe(battery_power(ps), QMul(res.battery_capacity_kwh, Q(8, 10)))

check_power_feasibility(res, ps) ==
    /\ QLe(daytime_power(ps), res.daytime_power_available_kwh)
    /\ QLe(battery_power(ps), QMul(res.battery_capacity_kwh, Q(8, 10)))

\* A version of calculate_water_costs that counts the way to the water
\* and not the way back.
calculate_water_costs_one_way(res, gallons_daily) ==
    LET trips_per_month == QDiv(QMul(gallons_daily, Num(30)), Num(100))
        miles_per_month == QMul(trips_per_month, res.water_distance_miles)
        gas_cost_per_mile == QDiv(Q(35, 10), res.truck_mpg)
    IN  QMul(miles_per_month, gas_cost_per_mile)

\* truck_mpg is not 0 in any snapshot of the model (3.50 / 0 would raise).
calculate_water_costs(res, gallons_daily) ==
    LET trips_per_month == QDiv(QMul(gallons_daily, Num(30)), Num(100))
        miles_per_month == QMul(QMul(trips_per_month, res.water_distance_miles), Num(2))
        gas_cost_per_mile == QDiv(Q(35, 10), res.truck_mpg)
    IN  QMul(miles_per_month, gas_cost_per_mile)

\* max(conn.sales_multiplier for conn in relevant_connections)
MaxMultiplier(conns) ==
    CHOOSE m \in { conns[i].sales_multiplier : i \in DOMAIN conns } :
        \A i \in DOMAIN conns : QLe(conns[i].sales_multiplier, m)

\* A version of calculate_market_adjusted_revenue that gives every indoor
\* project the climate bonus, whatever space it needs.
calculate_market_adjusted_revenue_any_space(res, project, season) ==
    LET base_revenue == project.monthly_revenue
        seasonal == QMul(base_revenue, project.seasonal_multipliers[season])
        climate ==
            IF project.is_indoor
            THEN QMul(seasonal, project.climate_controlled_benefit)
            ELSE seasonal
        relevant_connections ==
            SelectSeq(res.market_connections,
                      LAMBDA conn : project.product_type \in conn.product_types)
        market ==
            IF res.market_connections # << >> /\ relevant_connections # << >>
            THEN QMul(climate, MaxMultiplier(relevant_connections))
            ELSE climate
    IN  QMul(market, project.base_sales_probability)

calculate_market_adjusted_revenue(res, project, season) ==
    LET base_revenue == project.monthly_revenue
        seasonal == QMul(base_revenue, project.seasonal_multipliers[season])
        climate ==
            IF project.is_indoor /\ project.space_required_sqft <= res.climate_controlled_sqft
            THEN QMul(seasonal, project.climate_controlled_benefit)
            ELSE seasonal
        relevant_connections ==
            SelectSeq(res.market_connections,
                      LAMBDA conn : project.product_type \in conn.product_types)
        market ==
            IF res.market_connections # << >> /\ relevant_connections # << >>
            THEN QMul(climate, MaxMultiplier(relevant_connections))
            ELSE climate
    IN  QMul(market, project.base_sales_probability)

\* lines 591-601: what one month of the horizon adds to total_benefit.
MonthBenefit(res, upgrade, ps, m) ==
    LET season == Seasons[(m % 4) + 1]
    IN  QSum([ i \in 1..Len(ps) |->
                 LET current_revenue == calculate_market_adjusted_revenue(res, ps[i], season)
                     revenue_with_upgrade ==
                         QMul(current_revenue, upgrade.seasonal_benefits[season])
                 IN  IF /\ ps[i].is_indoor
                        /\ \E k \in DOMAIN upgrade.resource_impacts :
                               upgrade.resource_impacts[k][1] = "climate_controlled_sqft"
                     THEN QSub(revenue_with_upgrade, current_revenue)
                     ELSE Zero ])

RECURSIVE TotalBenefit(_, _, _, _)
\* lines 587-601: total_benefit after the months 0 .. horizon-1.
TotalBenefit(res, upgrade, ps, horizon) ==
    IF horizon <= 0 THEN Zero
    ELSE QAdd(TotalBenefit(res, upgrade, ps, horizon - 1),
              MonthBenefit(res, upgrade, ps, horizon - 1))

\* line 583
TotalCost(upgrade, horizon) ==
    QAdd(upgrade.cost, QMul(upgrade.monthly_operating_cost, Num(horizon)))

\* A version of calculate_infrastructure_roi without the guard of line 603.
calculate_infrastructure_roi_unguarded(res, upgrade, ps, horizon) ==
    LET total_cost == TotalCost(upgrade, horizon)
        total_benefit == TotalBenefit(res, upgrade, ps, horizon)
    IN  IF IsZero(total_cost) THEN Raise("ZeroDivisionError")
        ELSE Ok(QDiv(QSub(total_benefit, total_cost), total_cost))

calculate_infrastructure_roi(res, upgrade, ps, horizon) ==
    LET total_cost == TotalCost(upgrade, horizon)
        total_benefit == TotalBenefit(res, upgrade, ps, horizon)
    IN  IF QLt(Zero, total_cost)
        THEN Ok(QDiv(QSub(total_benefit, total_cost), total_cost))
        ELSE Ok(Zero)

calculate_project_score(res, project, selected_projects) ==
    LET monthly_water_cost == calculate_water_costs(res, project.water_gallons_daily)
        profit == QSub(QSub(QAdd(project.monthly_revenue, project.monthly_savings),
                            project.monthly_cost), monthly_water_cost)
        synergy_bonus ==
            Cardinality({ i \in DOMAIN selected_projects :
                            \/ project.name \in selected_projects[i].synergy_projects
                            \/ selected_projects[i].name \in project.synergy_projects })
        automation_bonus ==
            IF res.has_automation_skills THEN Q(project.automation_potential, 10) ELSE Zero
        scalability_bonus == Q(project.scalability, 10)
    IN  IF IsZero(project.setup_cost) THEN Raise("ZeroDivisionError")
        ELSE LET simple_roi == QDiv(profit, project.setup_cost)
             IN  Ok(QAdd(QAdd(QAdd(QMul(simple_roi, Q(4, 10)),
                                   QMul(Num(synergy_bonus), Q(2, 10))),
                              QMul(automation_bonus, Q(2, 10))),
                         QMul(scalability_bonus, Q(2, 10))))

----------------------------------------------------------------------------
(* The steps of one period of optimize_with_infrastructure. *)

\* The dataclass __eq__ of Project: the declared fields, in which
\* funded_so_far is not.
ProjEq(a, b) ==
    [ a EXCEPT !.has_funded_so_far = FALSE, !.funded_so_far = Zero ] =
    [ b EXCEPT !.has_funded_so_far = FALSE, !.funded_so_far = Zero ]

\* project in current_projects
InCurrent(ps, cur, project) == \E j \in DOMAIN cur : ProjEq(ps[cur[j]], project)

\* Project.update_stage
update_stage(project) ==
    IF project.current_stage = "setup" /\ project.startup_time_months = 0
    THEN [ project EXCEPT !.current_stage = "production" ]
    ELSE IF project.current_stage = "setup"
         THEN [ project EXCEPT !.startup_time_months = @ - 1 ]
         ELSE project

RECURSIVE StageLoop(_, _, _)
\* lines 654-660 from the k-th active project on.  calculate_monthly_revenue
\* is defined nowhere: line 658 raises NameError.
StageLoop(ps, cur, k) ==
    IF k > Len(cur) THEN [ projects |-> ps, fault |-> "none" ]
    ELSE LET staged == update_stage(ps[cur[k]])
         IN  IF staged.current_stage = "production"
             THEN [ projects |-> [ ps EXCEPT ![cur[k]] = staged ], fault |-> "NameError" ]
             ELSE StageLoop([ ps EXCEPT ![cur[k]] = [ staged EXCEPT !.monthly_revenue = Zero ] ],
                            cur, k + 1)

\* What the funding pass carries from one catalog project to the next.
FundState(ps, cur, budget, actions, flt) ==
    [ projects |-> ps, current_projects |-> cur, available_budget |-> budget,
      actions |-> actions, fault |-> flt ]

\* lines 666-674 for the i-th catalog project.  Project has no attribute
\* funded_so_far unless the caller has set one: line 667 raises
\* AttributeError.
FundProject(st, i) ==
    LET project == st.projects[i]
        required_funds == QSub(project.setup_cost, project.funded_so_far)
        funded == [ project EXCEPT !.funded_so_far = QAdd(@, required_funds) ]
        staged == IF QLe(funded.setup_cost, funded.funded_so_far)
                  THEN [ funded EXCEPT !.current_stage = "growth" ]
                  ELSE funded
    IN  IF InCurrent(st.projects, st.current_projects, project) \/ project.current_stage # "setup"
        THEN st
        ELSE IF ~project.has_funded_so_far
        THEN [ st EXCEPT !.fault = "AttributeError" ]
        ELSE IF ~QLe(required_funds, st.available_budget)
        THEN st
        ELSE FundState([ st.projects EXCEPT ![i] = staged ],
                       st.current_projects,
                       QSub(st.available_budget, required_funds),
                       Append(st.actions, [ kind |-> "Funded", name |-> project.name ]),
                       "none")

RECURSIVE FundLoop(_, _)
\* line 665: the catalog projects from the i-th on, until one raises.
FundLoop(st, i) ==
    IF i > Len(st.projects) \/ st.fault # "none" THEN st
    ELSE FundLoop(FundProject(st, i), i + 1)

\* The dataclass __eq__ of InfrastructureUpgrade, under "upgrade in planned_upgrades".
InPlanned(ups, planned, upgrade) == \E j \in DOMAIN planned : ups[planned[j]] = upgrade

\* A version of affordable_upgrades that does not leave out the applied ones.
affordable_upgrades_unfiltered(ups, planned, amount) ==
    SelectSeq([ i \in 1..Len(ups) |-> i ], LAMBDA i : QLe(ups[i].cost, amount))

\* A version of affordable_upgrades that does not look at the cost.
affordable_upgrades_any_cost(ups, planned, amount) ==
    SelectSeq([ i \in 1..Len(ups) |-> i ], LAMBDA i : ~InPlanned(ups, planned, ups[i]))

\* lines 691-694, as references into the catalog.
affordable_upgrades(ups, planned, amount) ==
    SelectSeq([ i \in 1..Len(ups) |-> i ],
              LAMBDA i : ~InPlanned(ups, planned, ups[i]) /\ QLe(ups[i].cost, amount))

\* lines 698-701: max(...) gives the first of the candidates with the
\* greatest key.
best_upgrade(res, ups, ps, cur, candidates, horizon) ==
    LET active == [ j \in 1..Len(cur) |-> ps[cur[j]] ]
        roi(i) == calculate_infrastructure_roi(res, ups[i], active, horizon).value
        k == CHOOSE k \in DOMAIN candidates :
                 /\ \A j \in DOMAIN candidates : QLe(roi(candidates[j]), roi(candidates[k]))
                 /\ \A j \in 1..(k - 1) : QLt(roi(candidates[j]), roi(candidates[k]))
    IN  candidates[k]

\* A version of upgrades_to_apply that takes every affordable upgrade.
upgrades_to_apply_all(res, ups, ps, cur, candidates, horizon) == candidates

\* lines 697-702: the upgrades the period applies, none or the best one.
upgrades_to_apply(res, ups, ps, cur, candidates, horizon) ==
    IF candidates # << >>
    THEN << best_upgrade(res, ups, ps, cur, candidates, horizon) >>
    ELSE << >>

RECURSIVE ApplyImpactsSubtracted(_, _, _)
\* A version of ApplyImpacts that takes each impact away from the field.
ApplyImpactsSubtracted(res, impacts, k) ==
    IF k > Len(impacts) THEN res
    ELSE LET resource == impacts[k][1]
             impact == impacts[k][2]
         IN  ApplyImpactsSubtracted(IF resource \in DOMAIN res
                                    THEN [ res EXCEPT ![resource] = @ - impact ]
                                    ELSE res,
                                    impacts, k + 1)

RECURSIVE ApplyImpacts(_, _, _)
\* lines 706-709 from the k-th item of resource_impacts on.
ApplyImpacts(res, impacts, k) ==
    IF k > Len(impacts) THEN res
    ELSE LET resource == impacts[k][1]
             impact == impacts[k][2]
         IN  ApplyImpacts(IF resource \in DOMAIN res
                          THEN [ res EXCEPT ![resource] = @ + impact ]
                          ELSE res,
                          impacts, k + 1)

RECURSIVE ApplyUpgrades(_, _, _)
\* lines 702-711 for each upgrade of chosen, in order.
ApplyUpgrades(st, ups, chosen) ==
    IF chosen = << >> THEN st
    ELSE LET best == ups[Head(chosen)]
         IN  ApplyUpgrades(
                 [ planned_upgrades |-> Append(st.planned_upgrades, Head(chosen)),
                   reinvestment_amount |-> QSub(st.reinvestment_amount, best.cost),
                   resources |-> ApplyImpacts(st.resources, best.resource_impacts, 1),
                   actions |-> Append(st.actions,
                                      [ kind |-> "Implemented upgrade", name |-> best.name ]) ],
                 ups, Tail(chosen))

----------------------------------------------------------------------------
(* The state after construction. *)

\* A catalog whose projects the caller has given the attribute
\* funded_so_far = 0, which line 667 reads and the dataclass does not define.
with_funded_so_far(ps) ==
    [ i \in 1..Len(ps) |-> [ ps[i] EXCEPT !.has_funded_so_far = TRUE, !.funded_so_far = Zero ] ]

\* A caller-supplied catalog: a project that needs no startup time and one
\* whose setup cost no budget of the model covers.
InjectedProjects ==
    << Project("Microgreens", 300, 20, 100, 0, 30, TRUE, 2, 4, "daytime_only", 0,
               {"air_plants"}, 7, 5, "plants", 80, Seasonal(12, 10, 11, 10), 12),
       Project("Orchard", 50000, 100, 400, 0, 2000, FALSE, 20, 0, "any_time", 3,
               {"compost"}, 5, 2, "fruit", 90, Seasonal(10, 12, 13, 5), 10) >>

BuiltinCatalogs == { _initialize_projects(100), _initialize_projects(0) }

Catalogs ==
    LET plain == BuiltinCatalogs \cup { InjectedProjects }
    IN  plain \cup { with_funded_so_far(ps) : ps \in plain }

\* available_money_monthly and reinvestment_rate (in tenths) of the snapshots.
Monies == { 500, 1000, 3000 }
Rates == { 0, 7, 10 }

EmptyReport == [ month |-> 0, actions |-> << >>, profit |-> Zero, savings |-> Zero ]

EmptyProjection ==
    [ monthly_details |-> << >>, monthly_profits |-> << >>, accumulated_savings |-> << >>,
      infrastructure_investments |-> << >>, well_savings |-> << >> ]

NotReturned ==
    [ set |-> FALSE, projects |-> << >>, upgrades |-> << >>, projection |-> EmptyProjection ]

NoRun ==
    [ set |-> FALSE, fault |-> "none", returned |-> NotReturned,
      projection |-> EmptyProjection, projection_months |-> 0 ]

NoCall == [ op |-> "none" ]

\* FarmOptimizer.__init__ on the snapshot res, with the catalog ps.
Constructed(res, ps) ==
    /\ resources = res
    /\ projects = ps
    /\ infrastructure_upgrades = _initialize_upgrades
    /\ built = [ resources |-> res, projects |-> ps ]
    /\ projection_months = 0
    /\ pc = "constructed"
    /\ month = 0
    /\ current_projects = << >>
    /\ planned_upgrades = << >>
    /\ available_budget = Zero
    /\ accumulated_savings = Zero
    /\ monthly_report = EmptyReport
    /\ monthly_revenue = Zero
    /\ monthly_costs = Zero
    /\ water_costs = Zero
    /\ monthly_profit = Zero
    /\ reinvestment_amount = Zero
    /\ financial_projection = EmptyProjection
    /\ fault = "none"
    /\ returned = NotReturned
    /\ first = NoRun
    /\ result = NoCall

Init ==
    \E money \in Monies, rate10 \in Rates, ps \in Catalogs :
        Constructed(Resources(money, rate10, 28, 35, << >>), ps)

----------------------------------------------------------------------------
(* optimize_with_infrastructure. *)

\* line 649: the loop goes on with period m, or ends.
LoopAt(m, months) == IF m < months THEN "update" ELSE "return"

\* A version of Begin in which planned_upgrades is not a fresh local list
\* but one that outlives the call.
BeginSharedPlanned(months, res) ==
    /\ projection_months' = months
    /\ current_projects' = << >>
    /\ planned_upgrades' = planned_upgrades
    /\ available_budget' = QMul(res.available_money_monthly, Num(res.investment_period_months))
    /\ financial_projection' = EmptyProjection
    /\ accumulated_savings' = Zero
    /\ month' = 0
    /\ pc' = LoopAt(0, months)
    /\ fault' = "none"
    /\ returned' = NotReturned
    /\ monthly_report' = EmptyReport
    /\ monthly_revenue' = Zero
    /\ monthly_costs' = Zero
    /\ water_costs' = Zero
    /\ monthly_profit' = Zero
    /\ reinvestment_amount' = Zero

\* lines 632-649: the locals of a call with projection_months = months on
\* an optimizer whose snapshot is res.
Begin(months, res) ==
    /\ projection_months' = months
    /\ current_projects' = << >>
    /\ planned_upgrades' = << >>
    /\ available_budget' = QMul(res.available_money_monthly, Num(res.investment_period_months))
    /\ financial_projection' = EmptyProjection
    /\ accumulated_savings' = Zero
    /\ month' = 0
    /\ pc' = LoopAt(0, months)
    /\ fault' = "none"
    /\ returned' = NotReturned
    /\ monthly_report' = EmptyReport
    /\ monthly_revenue' = Zero
    /\ monthly_costs' = Zero
    /\ water_costs' = Zero
    /\ monthly_profit' = Zero
    /\ reinvestment_amount' = Zero

Call ==
    /\ pc = "constructed"
    /\ \E months \in 0..MaxMonths : Begin(months, resources)
    /\ UNCHANGED << resources, projects, infrastructure_upgrades, first, built, result >>

\* lines 650-660
UpdateStages ==
    /\ pc = "update"
    /\ LET staged == StageLoop(projects, current_projects, 1)
       IN  /\ projects' = staged.projects
           /\ fault' = staged.fault
           /\ pc' = IF staged.fault = "none" THEN "fund" ELSE "faulted"
    /\ monthly_report' = [ month |-> month + 1, actions |-> << >>, profit |-> Zero, savings |-> Zero ]
    /\ UNCHANGED << resources, infrastructure_upgrades, projection_months, month,
                    current_projects, planned_upgrades, available_budget,
                    accumulated_savings, monthly_revenue, monthly_costs, water_costs,
                    monthly_profit, reinvestment_amount, financial_projection,
                    returned, first, built, result >>

\* lines 664-674
FundProjects ==
    /\ pc = "fund"
    /\ LET funded == FundLoop(FundState(projects, current_projects, available_budget,
                                        monthly_report.actions, "none"), 1)
       IN  /\ projects' = funded.projects
           /\ current_projects' = funded.current_projects
           /\ available_budget' = funded.available_budget
           /\ monthly_report' = [ monthly_report EXCEPT !.actions = funded.actions ]
           /\ fault' = funded.fault
           /\ pc' = IF funded.fault = "none" THEN "profit" ELSE "faulted"
    /\ UNCHANGED << resources, infrastructure_upgrades, projection_months, month,
                    planned_upgrades, accumulated_savings, monthly_revenue, monthly_costs,
                    water_costs, monthly_profit, reinvestment_amount,
                    financial_projection, returned, first, built, result >>

\* lines 678-681
RevenueTerm(res, ps, cur, season) ==
    QSum([ j \in 1..Len(cur) |-> calculate_market_adjusted_revenue(res, ps[cur[j]], season) ])

\* line 682
CostTerm(ps, cur) == QSum([ j \in 1..Len(cur) |-> ps[cur[j]].monthly_cost ])

\* lines 683-684
WaterCostTerm(res, ps, cur) ==
    QSum([ j \in 1..Len(cur) |-> calculate_water_costs(res, ps[cur[j]].water_gallons_daily) ])

\* lines 677-687
ComputeProfit ==
    /\ pc = "profit"
    /\ LET revenue == RevenueTerm(resources, projects, current_projects, from_month(month))
           costs == CostTerm(projects, current_projects)
           water == WaterCostTerm(resources, projects, current_projects)
           profit == QSub(QSub(revenue, costs), water)
       IN  /\ monthly_revenue' = revenue
           /\ monthly_costs' = costs
           /\ water_costs' = water
           /\ monthly_profit' = profit
           /\ monthly_report' = [ monthly_report EXCEPT !.profit = profit ]
    /\ pc' = "reinvest"
    /\ UNCHANGED << resources, projects, infrastructure_upgrades, projection_months,
                    month, current_projects, planned_upgrades, available_budget,
                    accumulated_savings, reinvestment_amount, financial_projection,
                    fault, returned, first, built, result >>

\* lines 689-711
Reinvest ==
    /\ pc = "reinvest"
    /\ LET amount == QAdd(monthly_profit, available_budget)
           candidates == affordable_upgrades(infrastructure_upgrades, planned_upgrades, amount)
           chosen == upgrades_to_apply(resources, infrastructure_upgrades, projects,
                                       current_projects, candidates,
                                       projection_months - month)
           applied == ApplyUpgrades([ planned_upgrades |-> planned_upgrades,
                                      reinvestment_amount |-> amount,
                                      resources |-> resources,
                                      actions |-> monthly_report.actions ],
                                    infrastructure_upgrades, chosen)
       IN  /\ planned_upgrades' = applied.planned_upgrades
           /\ reinvestment_amount' = applied.reinvestment_amount
           /\ resources' = applied.resources
           /\ monthly_report' = [ monthly_report EXCEPT !.actions = applied.actions ]
    /\ pc' = "savings"
    /\ UNCHANGED << projects, infrastructure_upgrades, projection_months, month,
                    current_projects, available_budget, accumulated_savings,
                    monthly_revenue, monthly_costs, water_costs, monthly_profit,
                    financial_projection, fault, returned, first, built, result >>

\* line 724
InvestedSoFar(ups, planned) == QSum([ j \in 1..Len(planned) |-> ups[planned[j]].cost ])

\* A version of savings_amount that saves the whole pool.
savings_amount_whole(amount, rate) == amount

\* line 714: the part of the pool that goes to the savings.
savings_amount(amount, rate) == QMul(amount, QSub(One, rate))

\* lines 713-726, and the loop's step to the next period
UpdateSavings ==
    /\ pc = "savings"
    /\ LET saved == QAdd(accumulated_savings,
                          savings_amount(reinvestment_amount, resources.reinvestment_rate))
           report == [ monthly_report EXCEPT !.savings = saved ]
       IN  /\ accumulated_savings' = saved
           /\ available_budget' = QMul(reinvestment_amount, resources.reinvestment_rate)
           /\ monthly_report' = report
           /\ financial_projection' =
                  [ monthly_details |-> Append(financial_projection.monthly_details, report),
                    monthly_profits |-> Append(financial_projection.monthly_profits, monthly_profit),
                    accumulated_savings |-> Append(financial_projection.accumulated_savings, saved),
                    infrastructure_investments |->
                        Append(financial_projection.infrastructure_investments,
                               InvestedSoFar(infrastructure_upgrades, planned_upgrades)),
                    well_savings |-> Append(financial_projection.well_savings, saved) ]
    /\ month' = month + 1
    /\ pc' = LoopAt(month + 1, projection_months)
    /\ UNCHANGED << resources, projects, infrastructure_upgrades, projection_months,
                    current_projects, planned_upgrades, monthly_revenue, monthly_costs,
                    water_costs, monthly_profit, reinvestment_amount, fault, returned,
                    first, built, result >>

\* line 729
Return ==
    /\ pc = "return"
    /\ returned' = [ set |-> TRUE,
                     projects |-> [ j \in 1..Len(current_projects) |-> projects[current_projects[j]] ],
                     upgrades |-> [ j \in 1..Len(planned_upgrades) |->
                                      infrastructure_upgrades[planned_upgrades[j]] ],
                     projection |-> financial_projection ]
    /\ pc' = "done"
    /\ UNCHANGED << resources, projects, infrastructure_upgrades, projection_months,
                    month, current_projects, planned_upgrades, available_budget,
                    accumulated_savings, monthly_report, monthly_revenue, monthly_costs,
                    water_costs, monthly_profit, reinvestment_amount,
                    financial_projection, fault, first, built, result >>

Next ==
    \/ Call
    \/ UpdateStages
    \/ FundProjects
    \/ ComputeProfit
    \/ Reinvest
    \/ UpdateSavings
    \/ Return

Spec == Init /\ [][Next]_vars

----------------------------------------------------------------------------
(* A second run: another optimizer is constructed from a snapshot and a    *)
(* catalog equal to the first one's and called with the same argument.     *)

Restart ==
    /\ pc \in {"done", "faulted"}
    /\ ~first.set
    /\ first' = [ set |-> TRUE, fault |-> fault, returned |-> returned,
                  projection |-> financial_projection,
                  projection_months |-> projection_months ]
    /\ resources' = built.resources
    /\ projects' = built.projects
    /\ infrastructure_upgrades' = _initialize_upgrades
    /\ Begin(projection_months, built.resources)
    /\ UNCHANGED << built, result >>

NextTwice == Next \/ Restart

SpecTwice == Init /\ [][NextTwice]_vars

----------------------------------------------------------------------------
(* The claims about the projection loop. *)

IsPrefix(s, t) == Len(s) <= Len(t) /\ SubSeq(t, 1, Len(s)) = s

NoDuplicates(s) == \A i, j \in DOMAIN s : i # j => s[i] # s[j]

\* The periods whose reinvestment step (lines 689-711) has run.
PeriodsReinvested == IF pc = "savings" THEN month + 1 ELSE month

\* C1: each period applies at most one upgrade: after k periods the
\* applied-upgrades list has at most k entries, and its length never
\* decreases from one step of the run to the next.
C1_AtMostOneUpgradePerPeriod ==
    [][ /\ Len(planned_upgrades') >= Len(planned_upgrades)
        /\ Len(planned_upgrades') <= PeriodsReinvested'
        /\ Len(planned_upgrades') <= projection_months' ]_vars

\* C1's case: two periods have each applied an upgrade.
C1_Witness == pc = "savings" /\ month = 1 /\ Len(planned_upgrades) = 2

\* C2: no catalog upgrade is in the applied-upgrades list more than once,
\* and an applied upgrade stays in the list in every later step.
C2_UpgradesAppliedOnceForGood ==
    [][ /\ NoDuplicates(planned_upgrades')
        /\ NoDuplicates([ j \in DOMAIN planned_upgrades' |->
                            infrastructure_upgrades'[planned_upgrades'[j]] ])
        /\ IsPrefix(planned_upgrades, planned_upgrades') ]_vars

\* C2's case: a period applies an upgrade while an upgrade applied in an
\* earlier period is affordable again from the same pool.
C2_Witness ==
    /\ pc = "savings"
    /\ Len(planned_upgrades) >= 2
    /\ \E k \in DOMAIN monthly_report.actions :
           monthly_report.actions[k].kind = "Implemented upgrade"
    /\ LET last == infrastructure_upgrades[planned_upgrades[Len(planned_upgrades)]]
           pool == QAdd(reinvestment_amount, last.cost)
       IN  \E j \in 1..(Len(planned_upgrades) - 1) :
               QLe(infrastructure_upgrades[planned_upgrades[j]].cost, pool)

\* The built-in catalog, as _initialize_projects builds it.
BuiltinAsConstructed == built.projects \in BuiltinCatalogs

MonthsInOrder(details) == \A i \in DOMAIN details : details[i].month = i

\* C3: with the built-in catalog a call with projection_months = N never
\* faults, and when it has returned the trace holds exactly N period
\* records, months 1..N in order, with the three series of length N.
C3_RunCompletesInNPeriods ==
    BuiltinAsConstructed =>
        /\ fault = "none"
        /\ pc = "done" =>
               /\ month = projection_months
               /\ Len(returned.projection.monthly_details) = projection_months
               /\ MonthsInOrder(returned.projection.monthly_details)
               /\ Len(returned.projection.monthly_profits) = projection_months
               /\ Len(returned.projection.accumulated_savings) = projection_months
               /\ Len(returned.projection.infrastructure_investments) = projection_months

\* The names of the projects a report records as funded.
FundedNames(report) ==
    { report.actions[k].name : k \in { k \in DOMAIN report.actions :
                                         report.actions[k].kind = "Funded" } }

ActiveNames == { projects[current_projects[j]].name : j \in DOMAIN current_projects }

\* C4: a project that a period records as "Funded X" is in the
\* active-project list from that period on.
C4_FundedProjectIsActive ==
    /\ pc \in {"profit", "reinvest", "savings"} => FundedNames(monthly_report) \subseteq ActiveNames
    /\ \A i \in DOMAIN financial_projection.monthly_details :
           FundedNames(financial_projection.monthly_details[i]) \subseteq ActiveNames

\* A project that needs no startup time, earns in every season and is
\* affordable from the initial budget.
Instant(project) ==
    /\ project.startup_time_months = 0
    /\ QLt(Zero, project.monthly_revenue)
    /\ QLt(Zero, project.base_sales_probability)
    /\ \A k \in DOMAIN Seasons : QLt(Zero, project.seasonal_multipliers[Seasons[k]])
    /\ QLe(project.setup_cost,
           QMul(built.resources.available_money_monthly,
                Num(built.resources.investment_period_months)))

\* C5: when the catalog holds such a project, the total revenue of
\* period 0 is not zero.
C5_InstantProjectEarnsInPeriodZero ==
    ( /\ \E i \in DOMAIN built.projects : Instant(built.projects[i])
      /\ pc = "reinvest"
      /\ month = 0 )
    => ~IsZero(monthly_revenue)

WellApplied ==
    \E j \in DOMAIN planned_upgrades :
        \E k \in DOMAIN infrastructure_upgrades[planned_upgrades[j]].resource_impacts :
            infrastructure_upgrades[planned_upgrades[j]].resource_impacts[k] = << "water_cost", -1 >>

----------------------------------------------------------------------------
(* The helper methods called on a constructed optimizer.  They change no   *)
(* state, so one call is followed from each constructed state.             *)

\* Projects handed to the helper methods: two of the built-in catalog, the
\* caller-supplied one, one that draws on the battery at night, one whose
\* setup costs nothing and one whose power draw is negative (it feeds power).
HelperProjects ==
    << _initialize_projects(100)[1],
       _initialize_projects(100)[3],
       InjectedProjects[1],
       Project("Night Heater", 400, 10, 50, 0, 10, TRUE, 0, 250, "night_only", 1,
               {"air_plants"}, 3, 8, "heat", 100, Seasonal(10, 10, 10, 20), 10),
       Project("Seed Swap", 0, 5, 40, 0, 10, TRUE, 1, 0, "any_time", 0,
               {"Air Cleaning Plants"}, 4, 1, "plants", 50, Seasonal(10, 10, 10, 10), 15),
       Project("Wind Charger", 900, 5, 0, 30, 5, FALSE, 0, -20, "any_time", 1,
               {"compost"}, 2, 9, "power", 100, Seasonal(10, 10, 10, 10), 10) >>

\* Upgrades handed to calculate_infrastructure_roi: the built-in ones, one
\* that costs nothing at all and one that costs nothing to buy.
HelperUpgrades ==
    _initialize_upgrades \o
    << InfrastructureUpgrade("Donated Greenhouse", 0,
                             << << "climate_controlled_sqft", 500 >> >>, 0,
                             Seasonal(12, 10, 13, 15)),
       InfrastructureUpgrade("Leased Greenhouse", 0,
                             << << "climate_controlled_sqft", 500 >> >>, 100,
                             Seasonal(12, 10, 13, 15)) >>

\* The lists of at most MaxListLen helper projects.
ProjectLists ==
    UNION { [ 1..n -> Range(HelperProjects) ] : n \in 0..MaxListLen }

\* Snapshots with a small and a large battery and daytime supply, without
\* and with a market connection for plants.
HelperSnapshots ==
    { Resources(500, 7, battery, daytime, connections) :
        battery \in { 1, 28 }, daytime \in { 1, 35 },
        connections \in { << >>, << MarketConnection("Farmers Market", {"plants"}, 15) >> } }

\* Snapshots with 40 sqft of climate-controlled space, without market
\* connections and with three of them, two of which sell plants.
RevenueSnapshots ==
    { [ Resources(500, 7, 28, 35, connections) EXCEPT !.climate_controlled_sqft = 40 ] :
        connections \in
            { << >>,
              << MarketConnection("Wholesaler", {"plants", "meat"}, 12),
                 MarketConnection("Farmers Market", {"plants"}, 15),
                 MarketConnection("Feed Store", {"feed"}, 20) >> } }

\* Snapshots with another distance to the water and another fuel economy.
WaterSnapshots ==
    { [ Resources(500, 7, 28, 35, << >>) EXCEPT !.water_distance_miles = Num(20) ],
      [ Resources(500, 7, 28, 35, << >>) EXCEPT !.truck_mpg = Num(25) ] }

InitHelpers ==
    \E res \in HelperSnapshots \cup RevenueSnapshots \cup WaterSnapshots :
        Constructed(res, HelperProjects)

\* Projects handed to calculate_market_adjusted_revenue: the helper projects
\* and one with base revenue 100, no seasonal effect and sale probability 0.5
\* that needs more than the climate-controlled space of any snapshot.
RevenueProjects ==
    Range(HelperProjects) \cup
    { Project("Potted Herbs", 150, 10, 100, 0, 60, TRUE, 1, 1, "daytime_only", 1,
              {"air_plants"}, 5, 5, "plants", 50, Seasonal(10, 10, 10, 10), 13) }

\* The daily water needs handed to calculate_water_costs, in gallons.
WaterGallons == { 0, 1, 2, 5, 10, 15 }

CallMarketRevenue ==
    /\ pc = "constructed"
    /\ result.op = "none"
    /\ \E project \in RevenueProjects, k \in DOMAIN Seasons :
           result' = [ op |-> "calculate_market_adjusted_revenue", project |-> project,
                       season |-> Seasons[k],
                       out |-> calculate_market_adjusted_revenue(resources, project, Seasons[k]) ]
    /\ UNCHANGED << resources, projects, infrastructure_upgrades, projection_months, pc,
                    month, current_projects, planned_upgrades, available_budget,
                    accumulated_savings, monthly_report, monthly_revenue, monthly_costs,
                    water_costs, monthly_profit, reinvestment_amount,
                    financial_projection, fault, returned, first, built >>

CallWaterCosts ==
    /\ pc = "constructed"
    /\ result.op = "none"
    /\ \E gallons \in WaterGallons :
           result' = [ op |-> "calculate_water_costs", gallons_daily |-> Num(gallons),
                       out |-> calculate_water_costs(resources, Num(gallons)) ]
    /\ UNCHANGED << resources, projects, infrastructure_upgrades, projection_months, pc,
                    month, current_projects, planned_upgrades, available_budget,
                    accumulated_savings, monthly_report, monthly_revenue, monthly_costs,
                    water_costs, monthly_profit, reinvestment_amount,
                    financial_projection, fault, returned, first, built >>

\* check_power_feasibility on a list and on the list with one more project.
CallCheckPower ==
    /\ pc = "constructed"
    /\ result.op = "none"
    /\ \E ps \in ProjectLists, p \in Range(HelperProjects) :
           result' = [ op |-> "check_power_feasibility", projects |-> ps, added |-> p,
                       feasible |-> check_power_feasibility(resources, ps),
                       feasible_with_added |->
                           check_power_feasibility(resources, Append(ps, p)) ]
    /\ UNCHANGED << resources, projects, infrastructure_upgrades, projection_months, pc,
                    month, current_projects, planned_upgrades, available_budget,
                    accumulated_savings, monthly_report, monthly_revenue, monthly_costs,
                    water_costs, monthly_profit, reinvestment_amount,
                    financial_projection, fault, returned, first, built >>

CallInfrastructureRoi ==
    /\ pc = "constructed"
    /\ result.op = "none"
    /\ \E upgrade \in Range(HelperUpgrades), ps \in ProjectLists, horizon \in 0..MaxMonths :
           result' = [ op |-> "calculate_infrastructure_roi", upgrade |-> upgrade,
                       projects |-> ps, horizon |-> horizon,
                       out |-> calculate_infrastructure_roi(resources, upgrade, ps, horizon) ]
    /\ UNCHANGED << resources, projects, infrastructure_upgrades, projection_months, pc,
                    month, current_projects, planned_upgrades, available_budget,
                    accumulated_savings, monthly_report, monthly_revenue, monthly_costs,
                    water_costs, monthly_profit, reinvestment_amount,
                    financial_projection, fault, returned, first, built >>

CallProjectScore ==
    /\ pc = "constructed"
    /\ result.op = "none"
    /\ \E project \in Range(HelperProjects), selected \in ProjectLists :
           result' = [ op |-> "calculate_project_score", project |-> project,
                       selected |-> selected,
                       out |-> calculate_project_score(resources, project, selected) ]
    /\ UNCHANGED << resources, projects, infrastructure_upgrades, projection_months, pc,
                    month, current_projects, planned_upgrades, available_budget,
                    accumulated_savings, monthly_report, monthly_revenue, monthly_costs,
                    water_costs, monthly_profit, reinvestment_amount,
                    financial_projection, fault, returned, first, built >>

NextHelpers ==
    \/ CallCheckPower
    \/ CallInfrastructureRoi
    \/ CallProjectScore
    \/ CallMarketRevenue
    \/ CallWaterCosts

SpecHelpers == InitHelpers /\ [][NextHelpers]_vars

----------------------------------------------------------------------------
(* The claims about the helper methods. *)

\* C8: adding a project with a non-negative draw lowers neither power
\* total, so a list that is feasible with the project added is feasible
\* without it; and the check changes neither the snapshot nor the projects.
C8_PowerFeasibilityMonotonic ==
    [][ result'.op = "check_power_feasibility" =>
          LET ps == result'.projects
              with_added == Append(ps, result'.added)
          IN  /\ QLe(Zero, result'.added.power_usage.kwh_daily) =>
                    /\ QLe(daytime_power(ps), daytime_power(with_added))
                    /\ QLe(battery_power(ps), battery_power(with_added))
                    /\ result'.feasible_with_added => result'.feasible
              /\ resources' = resources
              /\ projects' = projects ]_vars

\* C8's case: the added project makes a feasible list infeasible.
C8_Witness ==
    /\ result.op = "check_power_feasibility"
    /\ result.projects # << >>
    /\ result.feasible
    /\ ~result.feasible_with_added

\* C9: calculate_infrastructure_roi returns exactly 0, and does not raise,
\* when the total cost is 0.
C9_RoiZeroWhenCostZero ==
    ( /\ result.op = "calculate_infrastructure_roi"
      /\ IsZero(TotalCost(result.upgrade, result.horizon)) )
    => result.out = Ok(Zero)

\* C9's case: a call with total cost 0 and a benefit that is not 0.
C9_Witness ==
    /\ result.op = "calculate_infrastructure_roi"
    /\ IsZero(TotalCost(result.upgrade, result.horizon))
    /\ ~IsZero(TotalBenefit(resources, result.upgrade, result.projects, result.horizon))
    /\ result.out = Ok(Zero)

\* C10: calculate_project_score on a project whose setup_cost is 0 raises
\* nothing and returns a score.
C10_ScoreGuardsZeroSetupCost ==
    ( /\ result.op = "calculate_project_score"
      /\ IsZero(result.project.setup_cost) )
    => result.out.fault = "none"

\* The sales multipliers of the connections that list the product type.
MatchingMultipliers(res, project) ==
    { res.market_connections[i].sales_multiplier :
        i \in { i \in DOMAIN res.market_connections :
                  project.product_type \in res.market_connections[i].product_types } }

\* The greatest of a non-empty set of rationals.
Greatest(S) == CHOOSE m \in S : \A x \in S : QLe(x, m)

\* C11: the adjusted revenue is base revenue x season multiplier x climate
\* bonus (only for an indoor project whose space fits the climate-controlled
\* space) x the greatest sales multiplier among the connections that list
\* the product type (only if there is one) x base sale probability; base
\* 100, season multiplier 1, one matching connection with multiplier 1.5,
\* probability 0.5 and no climate bonus give 75.
C11_MarketAdjustedRevenue ==
    result.op = "calculate_market_adjusted_revenue" =>
        LET project == result.project
            bonus == IF /\ project.is_indoor
                        /\ project.space_required_sqft <= resources.climate_controlled_sqft
                     THEN project.climate_controlled_benefit ELSE One
            matching == MatchingMultipliers(resources, project)
            market == IF matching # {} THEN Greatest(matching) ELSE One
            expected ==
                QMul(QMul(QMul(QMul(project.monthly_revenue,
                                    project.seasonal_multipliers[result.season]),
                               bonus), market), project.base_sales_probability)
        IN  /\ result.out = expected
            /\ ( /\ project.monthly_revenue = Num(100)
                 /\ project.seasonal_multipliers[result.season] = One
                 /\ bonus = One
                 /\ matching = { Q(15, 10) }
                 /\ project.base_sales_probability = Q(1, 2) )
               => result.out = Num(75)

\* C11's case: the call of the example, which gives 75.
C11_Witness ==
    /\ result.op = "calculate_market_adjusted_revenue"
    /\ result.project.monthly_revenue = Num(100)
    /\ result.project.seasonal_multipliers[result.season] = One
    /\ result.project.base_sales_probability = Q(1, 2)
    /\ MatchingMultipliers(resources, result.project) = { Q(15, 10) }
    /\ result.project.space_required_sqft > resources.climate_controlled_sqft
    /\ result.out = Num(75)

\* C12: the water cost of g gallons a day is (g x 30 / 100) round trips x
\* distance x 2 miles x (3.50 / truck_mpg) dollars a mile, whatever the other
\* fields of the snapshot are: 28 for 10 gallons at 20 miles and 15 mpg, and
\* 0 for 0 gallons.
C12_WaterCosts ==
    result.op = "calculate_water_costs" =>
        LET g == result.gallons_daily
            cost(dist, mpg) ==
                QMul(QMul(QMul(QDiv(QMul(g, Num(30)), Num(100)), dist), Num(2)),
                     QDiv(Q(350, 100), mpg))
        IN  /\ result.out = cost(resources.water_distance_miles, resources.truck_mpg)
            /\ \A other \in HelperSnapshots \cup RevenueSnapshots \cup WaterSnapshots :
                   ( /\ other.water_distance_miles = resources.water_distance_miles
                     /\ other.truck_mpg = resources.truck_mpg )
                   => calculate_water_costs(other, g) = result.out
            /\ ( /\ g = Num(10)
                 /\ resources.water_distance_miles = Num(20)
                 /\ resources.truck_mpg = Num(15) )
               => result.out = Num(28)
            /\ g = Zero => result.out = Zero

\* C12's case: 10 gallons a day at 20 miles and 15 mpg cost 28.
C12_Witness ==
    /\ result.op = "calculate_water_costs"
    /\ result.gallons_daily = Num(10)
    /\ resources.water_distance_miles = Num(20)
    /\ resources.truck_mpg = Num(15)
    /\ result.out = Num(28)

\* The space and power fields of a snapshot are not negative and its
\* reinvestment rate is between 0 and 1.
WithinBounds(res) ==
    /\ QLe(Zero, res.solar_power_kw)
    /\ QLe(Zero, res.battery_capacity_kwh)
    /\ QLe(Zero, res.daytime_power_available_kwh)
    /\ QLe(Zero, res.outdoor_space_acres)
    /\ res.indoor_space_sqft >= 0
    /\ res.climate_controlled_sqft >= 0
    /\ QLe(Zero, res.reinvestment_rate)
    /\ QLe(res.reinvestment_rate, One)

\* C13: a run that starts from a snapshot whose space and power fields are
\* not negative and whose reinvestment rate is in [0, 1] keeps them so in
\* every state, after any number of periods and any upgrades applied.
C13_ResourcesStayWithinBounds ==
    WithinBounds(built.resources) => WithinBounds(resources)

\* C13's case: the three upgrades of the catalog have been applied to a
\* snapshot within bounds, and the space fields have grown.
C13_Witness ==
    /\ WithinBounds(built.resources)
    /\ Len(planned_upgrades) = 3
    /\ resources.indoor_space_sqft = built.resources.indoor_space_sqft + 800
    /\ resources.climate_controlled_sqft = built.resources.climate_controlled_sqft + 500

\* The period's reinvestable pool, profit plus leftover budget (line 690).
Pool == QAdd(monthly_profit, available_budget)

\* The upgrades of the catalog that are not yet applied and cost no more
\* than the pool.
Qualifying ==
    { i \in DOMAIN infrastructure_upgrades :
        /\ \A j \in DOMAIN planned_upgrades : planned_upgrades[j] # i
        /\ QLe(infrastructure_upgrades[i].cost, Pool) }

\* calculate_infrastructure_roi of the i-th upgrade over the remaining horizon.
RoiOverRemainingHorizon(i) ==
    calculate_infrastructure_roi(resources, infrastructure_upgrades[i],
                                 [ j \in 1..Len(current_projects) |-> projects[current_projects[j]] ],
                                 projection_months - month).value

\* C14: in every period the upgrade applied, if any, is not yet applied,
\* costs no more than the pool (profit + leftover budget) and has the
\* greatest ROI over the remaining horizon among the upgrades that qualify;
\* one is applied whenever one qualifies, and the pool left after its cost
\* is not negative.
C14_BestAffordableUpgradeApplied ==
    [][ (pc = "reinvest" /\ pc' = "savings") =>
          IF Qualifying = {}
          THEN /\ planned_upgrades' = planned_upgrades
               /\ reinvestment_amount' = Pool
          ELSE /\ Len(planned_upgrades') = Len(planned_upgrades) + 1
               /\ IsPrefix(planned_upgrades, planned_upgrades')
               /\ LET applied == planned_upgrades'[Len(planned_upgrades')]
                  IN  /\ applied \in Qualifying
                      /\ \A i \in Qualifying :
                             QLe(RoiOverRemainingHorizon(i), RoiOverRemainingHorizon(applied))
                      /\ reinvestment_amount' = QSub(Pool, infrastructure_upgrades[applied].cost)
                      /\ QLe(Zero, reinvestment_amount') ]_vars

\* C14's case: a period has applied an upgrade while another one qualified
\* too and a third one, not yet applied, cost more than the pool.
C14_Witness ==
    /\ pc = "savings"
    /\ planned_upgrades # << >>
    /\ monthly_report.actions # << >>
    /\ monthly_report.actions[Len(monthly_report.actions)].kind = "Implemented upgrade"
    /\ LET applied == planned_upgrades[Len(planned_upgrades)]
           pool == QAdd(reinvestment_amount, infrastructure_upgrades[applied].cost)
           open == { i \in DOMAIN infrastructure_upgrades :
                       \A j \in DOMAIN planned_upgrades : planned_upgrades[j] # i }
       IN  /\ \E i \in open : QLe(infrastructure_upgrades[i].cost, pool)
           /\ \E i \in open : QLt(pool, infrastructure_upgrades[i].cost)

ActiveInTime(i, p) ==
    /\ p \in DOMAIN financial_projection.monthly_details
    /\ built.projects[i].name \in FundedNames(financial_projection.monthly_details[p])
    /\ projection_months >= p + built.projects[i].startup_time_months + 1

\* C16: a project that becomes active has reached the stage "production"
\* by the end of a run whose horizon is long enough, with its startup
\* countdown counted down to 0 and never below.
C16_ActiveProjectReachesProduction ==
    pc = "done" =>
        \A i \in DOMAIN projects :
            (\E p \in 1..projection_months : ActiveInTime(i, p)) =>
                /\ projects[i].current_stage = "production"
                /\ projects[i].startup_time_months = 0

====
